---- MODULE Spec2Model ----
(***************************************************************************)
(* Basis-set fitting animations of MR_Spectroscopy_Animation:              *)
(*   Basis_fitting_time_domain.py          (script = "time")               *)
(*   Basis_set_fiiting_Spectral_domain.py  (script = "freq")               *)
(* Each script builds per-species basis and real signals once, then        *)
(* FuncAnimation calls update(frame) for frame = 0 .. frames-1, which      *)
(* mutates the line and text artists of one figure.                        *)
(*                                                                         *)
(* Numbers.  Floats are modelled as exact rationals <<num, den>> in lowest *)
(* terms with den > 0; den = 0 holds the IEEE specials: <<0,0>> is NaN,    *)
(* <<1,0>> is +Inf, <<-1,0>> is -Inf.  Complex samples are records         *)
(* [re, im] of such values.  The sampling grid is scaled so that every     *)
(* exponential is exact: BW = 4 Hz and integer frequencies make            *)
(* exp(1j*2*pi*f*t) a power of 1j, and the T2 envelope exp(-t/T2) sampled  *)
(* at t = n/BW is the geometric sequence 2^-n.                             *)
(***************************************************************************)
EXTENDS Integers, Sequences, FiniteSets, TLC

\* ------------------------------------------------------------- bounds ----
MaxSpecies == 4

\* ---------------------------------------------------- program constants --
\* scaled to the exact grid: the scripts have BW = 2000, N = 2048, J = 7
BW == 4
N == 2
J == 2

\* ----------------------------------------------------------- rationals ---
AbsInt(a) == IF a < 0 THEN 0 - a ELSE a

RECURSIVE GCD(_, _)
GCD(a, b) == IF b = 0 THEN a ELSE GCD(b, a % b)

SignInt(a) == IF a < 0 THEN 0 - 1 ELSE IF a > 0 THEN 1 ELSE 0

NaN == <<0, 0>>

\* the float nearest n/d; d = 0 gives NaN or a signed infinity
Rat(n, d) ==
    IF d = 0 THEN <<SignInt(n), 0>>
    ELSE LET g == GCD(AbsInt(n), AbsInt(d))
             sg == IF d < 0 THEN 0 - 1 ELSE 1
         IN  <<(sg * n) \div g, (sg * d) \div g>>

R0 == <<0, 1>>
R1 == <<1, 1>>

IsNaN(x) == x = NaN
IsFinite(x) == x[2] # 0
IsInf(x) == x[2] = 0 /\ x[1] # 0

RAdd(x, y) ==
    IF IsNaN(x) \/ IsNaN(y) THEN NaN
    ELSE IF IsInf(x) /\ IsInf(y) THEN (IF x = y THEN x ELSE NaN)
    ELSE IF IsInf(x) THEN x
    ELSE IF IsInf(y) THEN y
    ELSE Rat(x[1] * y[2] + y[1] * x[2], x[2] * y[2])

RNeg(x) == <<0 - x[1], x[2]>>

RSub(x, y) == RAdd(x, RNeg(y))

RMul(x, y) ==
    IF IsNaN(x) \/ IsNaN(y) THEN NaN
    ELSE IF IsInf(x) \/ IsInf(y)
         THEN <<SignInt(x[1]) * SignInt(y[1]), 0>>
    ELSE Rat(x[1] * y[1], x[2] * y[2])

\* IEEE division: 0/0 = NaN, x/0 = +-Inf, x/Inf = 0, Inf/Inf = NaN
RDiv(x, y) ==
    IF IsNaN(x) \/ IsNaN(y) THEN NaN
    ELSE IF IsInf(y) THEN (IF IsInf(x) THEN NaN ELSE R0)
    ELSE IF IsInf(x) THEN <<x[1] * (IF y[1] < 0 THEN 0 - 1 ELSE 1), 0>>
    ELSE Rat(x[1] * y[2], x[2] * y[1])

\* x < y as floats compare: any comparison with NaN is false
RLess(x, y) ==
    /\ ~IsNaN(x)
    /\ ~IsNaN(y)
    /\ IF IsInf(x) \/ IsInf(y)
       THEN (IF IsInf(x) THEN x[1] ELSE 0) < (IF IsInf(y) THEN y[1] ELSE 0)
       ELSE x[1] * y[2] < y[1] * x[2]

RLeq(x, y) == ~IsNaN(x) /\ ~IsNaN(y) /\ ~RLess(y, x)

RAbs(x) == <<AbsInt(x[1]), x[2]>>

\* exact square root of a perfect-square natural number
ISqrt(n) == CHOOSE r \in 0..n : r * r = n

RSqrt(x) ==
    IF x[2] = 0 THEN (IF x = <<1, 0>> THEN x ELSE NaN)
    ELSE <<ISqrt(x[1]), ISqrt(x[2])>>

\* int(x) for a finite non-negative x
Floor(x) == x[1] \div x[2]

\* ------------------------------------------------------------- complex ---
Cx(re, im) == [re |-> re, im |-> im]

C0 == Cx(R0, R0)

CAdd(z, w) == Cx(RAdd(z.re, w.re), RAdd(z.im, w.im))

\* complex * real, complex / real
CScale(z, r) == Cx(RMul(z.re, r), RMul(z.im, r))

CDivR(z, r) == Cx(RDiv(z.re, r), RDiv(z.im, r))

CMul(z, w) ==
    Cx(RSub(RMul(z.re, w.re), RMul(z.im, w.im)),
       RAdd(RMul(z.re, w.im), RMul(z.im, w.re)))

\* np.abs of a complex sample
CAbs(z) == RSqrt(RAdd(RMul(z.re, z.re), RMul(z.im, z.im)))

\* exp(1j*2*pi*x) for a rational number of turns x that is a multiple of 1/4
CisTurn(x) ==
    LET q == ((4 * x[1]) \div x[2]) % 4
    IN  CASE q = 0 -> Cx(R1, R0)
          [] q = 1 -> Cx(R0, R1)
          [] q = 2 -> Cx(RNeg(R1), R0)
          [] q = 3 -> Cx(R0, RNeg(R1))

\* --------------------------------------------------------- array helpers -
RECURSIVE Pow2(_)
Pow2(n) == IF n = 0 THEN 1 ELSE 2 * Pow2(n - 1)

\* np.max of a real array (NaN propagates)
RECURSIVE MaxFrom(_, _, _)
MaxFrom(a, i, m) ==
    IF i > Len(a) THEN m
    ELSE MaxFrom(a, i + 1,
                 IF IsNaN(m) \/ IsNaN(a[i]) THEN NaN
                 ELSE IF RLess(m, a[i]) THEN a[i] ELSE m)

ArrMax(a) == MaxFrom(a, 2, a[1])

\* np.argmax of a real array, as an index into 1..Len(a): the first NaN if
\* there is one, else the first position of the maximum
ArgMax(a) ==
    IF \E i \in 1..Len(a) : IsNaN(a[i])
    THEN CHOOSE i \in 1..Len(a) :
            IsNaN(a[i]) /\ \A j \in 1..(i - 1) : ~IsNaN(a[j])
    ELSE CHOOSE i \in 1..Len(a) :
            /\ \A j \in 1..Len(a) : RLeq(a[j], a[i])
            /\ \A j \in 1..(i - 1) : RLess(a[j], a[i])

ArrAbs(a) == [i \in 1..Len(a) |-> CAbs(a[i])]

ArrReal(a) == [i \in 1..Len(a) |-> a[i].re]

CArrAdd(a, b) == [i \in 1..Len(a) |-> CAdd(a[i], b[i])]

CArrScale(a, r) == [i \in 1..Len(a) |-> CScale(a[i], r)]

CArrDivR(a, r) == [i \in 1..Len(a) |-> CDivR(a[i], r)]

RArrAdd(a, b) == [i \in 1..Len(a) |-> RAdd(a[i], b[i])]

RArrScale(a, r) == [i \in 1..Len(a) |-> RMul(a[i], r)]

RArrDivR(a, r) == [i \in 1..Len(a) |-> RDiv(a[i], r)]

\* ------------------------------------------------------- global arrays ---
\* t = np.arange(N)/BW
TimeAxis == [n \in 1..N |-> Rat(n - 1, BW)]

\* freq = np.linspace(-400,400,N)
FreqAxis == [n \in 1..N |-> Rat(0 - 400 * (N - 1) + 800 * (n - 1), N - 1)]

\* decay = np.exp(-t/T2), with exp(-1/(BW*T2)) = 1/2
decay == [n \in 1..N |-> Rat(1, Pow2(n - 1))]

\* sig*decay
ApplyDecay(sig) == [n \in 1..N |-> CScale(sig[n], decay[n])]

\* the loop of multiplet: sig += a*np.exp(1j*2*np.pi*f*t) for pattern[i..]
RECURSIVE MultipletLoop(_, _, _, _)
MultipletLoop(center, pattern, i, sig) ==
    IF i > Len(pattern) THEN sig
    ELSE LET n == Len(pattern)
             \* offset = (i-(n-1)/2)*J with the 0-based index i - 1
             f == RAdd(Rat(center, 1), Rat((2 * (i - 1) - (n - 1)) * J, 2))
             term == [s \in 1..N |->
                        CScale(CisTurn(RMul(f, TimeAxis[s])),
                               Rat(pattern[i], 1))]
         IN  MultipletLoop(center, pattern, i + 1, CArrAdd(sig, term))

multiplet(center, pattern) ==
    ApplyDecay(MultipletLoop(center, pattern, 1, [s \in 1..N |-> C0]))

\* ------------------------------------------------------ configurations --
\* fps*seconds; the scripts set fps = 30, seconds = 15
Timings == {[fps |-> 10, seconds |-> 2], [fps |-> 10, seconds |-> 10],
            [fps |-> 30, seconds |-> 15]}

Component(center, pattern) == [center |-> center, pattern |-> pattern]

Species(name, comps, conc) == [name |-> name, comps |-> comps, conc |-> conc]

\* The species a configuration is drawn from, in dictionary order.  A..D are
\* the scripts' molecules (singlet, singlet + doublet, triplet, quartet);
\* E has an antisymmetric pattern, whose FID peaks after t = 0, and Z an
\* empty pattern.  Centers sit on the exact grid (integers, even in the
\* frequency-domain script so that the spectrum magnitudes are rational).
CatalogTime ==
    << Species("A", <<Component(1, <<1>>)>>, 5),
       Species("B", <<Component(2, <<1>>), Component(3, <<1, 1>>)>>, 10),
       Species("C", <<Component(0, <<1, 2, 1>>)>>, 3),
       Species("D", <<Component(1, <<1, 3, 3, 1>>)>>, 12),
       Species("E", <<Component(1, <<1, 0 - 1>>)>>, 2),
       Species("Z", <<Component(0, <<>>)>>, 4) >>

CatalogFreq ==
    << Species("A", <<Component(0, <<1>>)>>, 5),
       Species("B", <<Component(2, <<1>>), Component(0, <<1, 1>>)>>, 10),
       Species("C", <<Component(2, <<1, 2, 1>>)>>, 3),
       Species("D", <<Component(0, <<1, 3, 3, 1>>)>>, 12),
       Species("E", <<Component(0, <<1, 0 - 1>>)>>, 2),
       Species("Z", <<Component(2, <<>>)>>, 4) >>

\* the entries of cat whose index is in S, in catalog order
RECURSIVE Pick(_, _, _)
Pick(cat, S, i) ==
    IF i > Len(cat) THEN <<>>
    ELSE (IF i \in S THEN <<cat[i]>> ELSE <<>>) \o Pick(cat, S, i + 1)

Configs(cat) ==
    {Pick(cat, S, 1) :
        S \in {X \in SUBSET (1..Len(cat)) :
                  Cardinality(X) >= 1 /\ Cardinality(X) <= MaxSpecies}}

\* sum(...) of complex arrays, left to right from 0
RECURSIVE CArrSum(_, _)
CArrSum(arrs, i) ==
    IF i = 0 THEN [n \in 1..N |-> C0]
    ELSE CArrAdd(CArrSum(arrs, i - 1), arrs[i])

RECURSIVE RArrSum(_, _)
RArrSum(arrs, i) ==
    IF i = 0 THEN [n \in 1..N |-> R0]
    ELSE RArrAdd(RArrSum(arrs, i - 1), arrs[i])

\* the arrays of one species' multiplet(...) calls
Peaks(sp) ==
    [c \in 1..Len(sp.comps) |->
        multiplet(sp.comps[c].center, sp.comps[c].pattern)]

\* molecules of the time-domain script: "fid" is the sum of the multiplets
MoleculesTime(cfg) ==
    [i \in 1..Len(cfg) |->
        [name |-> cfg[i].name, conc |-> cfg[i].conc,
         fid |-> CArrSum(Peaks(cfg[i]), Len(cfg[i].comps))]]

\* molecules of the frequency-domain script: "peaks" is the list of multiplets
MoleculesFreq(cfg) ==
    [i \in 1..Len(cfg) |->
        [name |-> cfg[i].name, conc |-> cfg[i].conc,
         peaks |-> Peaks(cfg[i])]]

\* np.fft.fft
FFT(x) ==
    [kk \in 1..N |->
        LET RECURSIVE Acc(_)
            Acc(n) == IF n = 0 THEN C0
                      ELSE CAdd(Acc(n - 1),
                                CMul(x[n],
                                     CisTurn(Rat(0 - (kk - 1) * (n - 1), N))))
        IN  Acc(N)]

\* np.fft.fftshift
FFTShift(x) == [i \in 1..N |-> x[((i - 1 + N - (N \div 2)) % N) + 1]]

\* ---------------------------------------------------------------- state --
VARIABLES
    script,       \* "time" or "freq": which of the two scripts runs
    frames,       \* frames = fps*seconds
    molecules,    \* the molecules dictionary, in insertion order
    t,            \* the time axis
    freq,         \* the frequency axis (frequency-domain script only)
    basis_fids,   \* basis_fids / basis_specs, by species name
    real_fids,    \* real_fids / real_specs, by species name
    real_sum,     \* the composite signal
    fig,          \* the artists of the figure
    pc,           \* "setup", "ready", "play", "saved" or "error"
    nxt,          \* the next frame FuncAnimation will draw
    frame,        \* argument of the latest update call, -1 before the first
    phase,        \* locals of the latest update call
    k,
    s,
    ran,          \* the if-blocks the latest update call entered
    acq,          \* state of a progressive-acquisition script, else <<>>
    rf            \* state of RF_Pulse_to_FID.py, else <<>>

signals == <<t, freq, basis_fids, real_fids, real_sum>>

config == <<script, frames, molecules>>

locals == <<frame, phase, k, s, ran>>

\* the variables of the other scripts
others == <<acq, rf>>

\* the variables of the basis-fitting scripts
fitting == <<script, frames, molecules, t, freq, basis_fids, real_fids,
             real_sum, fig, pc, nxt, frame, phase, k, s, ran>>

vars == <<script, frames, molecules, t, freq, basis_fids, real_fids, real_sum,
          fig, pc, nxt, frame, phase, k, s, ran, acq, rf>>

None == <<>>

Names == {molecules[i].name : i \in 1..Len(molecules)}

\* position of a species in the dictionary, 1-based (enumerate gives Idx - 1)
Idx(name) == CHOOSE i \in 1..Len(molecules) : molecules[i].name = name

Mol(name) == molecules[Idx(name)]

\* a Line2D with its data, and a Text with its position and string
Line(x, y) == [x |-> x, y |-> y]

NoLine == Line(<<>>, <<>>)

Label(pos, text) == [pos |-> pos, text |-> text]

Txt(fmt, name, conc) == [fmt |-> fmt, name |-> name, conc |-> conc]

NoTxt == Txt("", "", 0)

Init ==
    /\ script \in {"time", "freq"}
    /\ \E tm \in Timings : frames = tm.fps * tm.seconds
    /\ IF script = "time"
       THEN \E cfg \in Configs(CatalogTime) : molecules = MoleculesTime(cfg)
       ELSE \E cfg \in Configs(CatalogFreq) : molecules = MoleculesFreq(cfg)
    /\ t = TimeAxis
    /\ freq = IF script = "freq" THEN FreqAxis ELSE None
    /\ basis_fids = None
    /\ real_fids = None
    /\ real_sum = None
    /\ fig = None
    /\ pc = "setup"
    /\ nxt = 0
    /\ frame = 0 - 1
    /\ phase = None
    /\ k = 0 - 1
    /\ s = None
    /\ ran = {}
    /\ acq = None
    /\ rf = None

\* ---------------------------------------------------------------- setup --
\* variant: divides by the magnitude of the first sample instead of the peak
NormalizeFid_FirstSample(fid) == CArrDivR(fid, CAbs(fid[1]))

\* basis = fid / np.max(np.abs(fid))
NormalizeFid(fid) == CArrDivR(fid, ArrMax(ArrAbs(fid)))

\* variant: the real signal is left at unit scale
RealOf_Unscaled(basis, conc) == basis

\* real = basis * data["conc"]
RealOf(basis, conc) == CArrScale(basis, Rat(conc, 1))

\* spec = np.abs(np.fft.fftshift(np.fft.fft(mol_sum)))
Spectrum(peaks) == ArrAbs(FFTShift(FFT(CArrSum(peaks, Len(peaks)))))

\* basis = spec/spec.max()
NormalizeSpec(spec) == RArrDivR(spec, ArrMax(spec))

RealSpecOf(basis, conc) == RArrScale(basis, Rat(conc, 1))

\* the figure as the plotting section leaves it: every line and text empty
NewFigure(xlim, ylim) ==
    [xlim |-> xlim,
     ylim |-> ylim,
     black_lines |-> [n \in Names |-> NoLine],
     red_lines |-> [n \in Names |-> NoLine],
     sum_black |-> NoLine,
     sum_red |-> NoLine,
     labels_real |-> [n \in Names |-> Label(<<R0, R0>>, NoTxt)],
     labels_basis |-> [n \in Names |-> Label(<<R0, R0>>, NoTxt)]]

SetupTime ==
    /\ pc = "setup"
    /\ script = "time"
    /\ LET basis == [n \in Names |-> NormalizeFid(Mol(n).fid)]
           real == [n \in Names |-> RealOf(basis[n], Mol(n).conc)]
       IN  /\ basis_fids' = basis
           /\ real_fids' = real
           /\ real_sum' = CArrSum([i \in 1..Len(molecules) |->
                                     real[molecules[i].name]],
                                  Len(molecules))
    /\ fig' = NewFigure(<<R0, Rat(35, 100)>>, <<Rat(0 - 25, 1), Rat(25, 1)>>)
    /\ pc' = "ready"
    /\ UNCHANGED <<config, t, freq, nxt, locals, others>>

\* ax.set_ylim(0, real_sum.max()*1.3) raises ValueError on a NaN limit, which
\* ends the script before the animation is created
SetupFreq ==
    /\ pc = "setup"
    /\ script = "freq"
    /\ LET basis == [n \in Names |-> NormalizeSpec(Spectrum(Mol(n).peaks))]
           real == [n \in Names |-> RealSpecOf(basis[n], Mol(n).conc)]
           rsum == RArrSum([i \in 1..Len(molecules) |->
                              real[molecules[i].name]],
                           Len(molecules))
           top == RMul(ArrMax(rsum), Rat(13, 10))
       IN  /\ basis_fids' = basis
           /\ real_fids' = real
           /\ real_sum' = rsum
           /\ IF IsFinite(top)
              THEN /\ fig' = NewFigure(<<Rat(50, 1), Rat(360, 1)>>, <<R0, top>>)
                   /\ pc' = "ready"
              ELSE /\ fig' = fig
                   /\ pc' = "error"
    /\ UNCHANGED <<config, t, freq, nxt, locals, others>>

\* --------------------------------------------------------------- update --
\* phase = frame/frames
Progress(f) == Rat(f, frames)

\* the conditions of the five if-blocks of update
InReveal(ph) == RLess(ph, Rat(3, 10))

\* variant: the lower bound of PHASE 2 is exclusive
InSum_Exclusive(ph) == RLess(Rat(3, 10), ph) /\ RLess(ph, Rat(45, 100))

InSum(ph) == RLeq(Rat(3, 10), ph) /\ RLess(ph, Rat(45, 100))

InBasis(ph) == RLeq(Rat(45, 100), ph) /\ RLess(ph, Rat(65, 100))

\* variant: PHASE 4 has no upper bound
InScale_Unbounded(ph) == RLeq(Rat(65, 100), ph)

InScale(ph) == RLeq(Rat(65, 100), ph) /\ RLess(ph, Rat(9, 10))

InFit(ph) == RLeq(Rat(9, 10), ph)

\* k = int((phase/0.3)*len(molecules))
RevealIndex(ph) ==
    Floor(RMul(RDiv(ph, Rat(3, 10)), Rat(Len(molecules), 1)))

\* variants: i<k, and i==k
Revealed_Strict(i, kk) == i < kk

Revealed_Only(i, kk) == i = kk

\* if i<=k, for the 0-based position i of a species
Revealed(i, kk) == i <= kk

\* variant: the ramp is divided by the wrong width
ScaleFactor_Wide(ph) == RDiv(RSub(ph, Rat(65, 100)), Rat(35, 100))

\* s = (phase-0.65)/0.25
ScaleFactor(ph) == RDiv(RSub(ph, Rat(65, 100)), Rat(25, 100))

\* the label slot of the time-domain script: (0.25, 18-4*i)
SlotPos(i) == <<Rat(25, 100), Rat(18 - 4 * i, 1)>>

\* the label anchor of the frequency-domain script:
\* x0 = freq[np.argmax(y)], y0 = y.max()*1.05
PeakPos(y) == <<freq[ArgMax(y)], RMul(ArrMax(y), Rat(105, 100))>>

\* sum(basis_fids[n]*molecules[n]["conc"] for n in molecules)
FittedTime ==
    CArrSum([i \in 1..Len(molecules) |->
                CArrScale(basis_fids[molecules[i].name],
                          Rat(molecules[i].conc, 1))],
            Len(molecules))

\* sum(basis_specs[n]*molecules[n]["conc"] for n in molecules)
FittedFreq ==
    RArrSum([i \in 1..Len(molecules) |->
                RArrScale(basis_fids[molecules[i].name],
                          Rat(molecules[i].conc, 1))],
            Len(molecules))

\* PHASE 1 of the time-domain script
RevealTime(fg, kk) ==
    [fg EXCEPT
       !.black_lines = [n \in Names |->
          IF Revealed(Idx(n) - 1, kk)
          THEN Line(t, ArrReal(real_fids[n])) ELSE @[n]],
       !.labels_real = [n \in Names |->
          IF Revealed(Idx(n) - 1, kk)
          THEN Label(SlotPos(Idx(n) - 1), Txt("{name}  C={conc}", n, Mol(n).conc))
          ELSE @[n]]]

\* variant: PHASE 2 draws the sum without hiding the individual traces
SumTime_KeepIndividuals(fg) ==
    [fg EXCEPT !.sum_black = Line(t, ArrReal(real_sum))]

\* PHASE 2
SumTime(fg) ==
    [fg EXCEPT
       !.sum_black = Line(t, ArrReal(real_sum)),
       !.black_lines = [n \in Names |-> NoLine],
       !.labels_real = [n \in Names |-> [@[n] EXCEPT !.text = NoTxt]]]

\* PHASE 3
BasisTime(fg) ==
    [fg EXCEPT
       !.red_lines = [n \in Names |-> Line(t, ArrReal(basis_fids[n]))],
       !.labels_basis = [n \in Names |->
          Label(SlotPos(Idx(n) - 1), Txt("1 AU", "", 0))]]

\* PHASE 4
ScaleTime(fg, sc) ==
    [fg EXCEPT
       !.red_lines = [n \in Names |->
          Line(t, ArrReal(CArrScale(CArrScale(basis_fids[n],
                                              Rat(Mol(n).conc, 1)), sc)))],
       !.labels_basis = [n \in Names |->
          Label(SlotPos(Idx(n) - 1), Txt("{conc:.1f} AU", "", Mol(n).conc))]]

\* PHASE 5
FitTime(fg) == [fg EXCEPT !.sum_red = Line(t, ArrReal(FittedTime))]

\* update(frame) of Basis_fitting_time_domain.py acting on the artists fg
UpdateTime(fg, f) ==
    LET ph == Progress(f)
        f1 == IF InReveal(ph) THEN RevealTime(fg, RevealIndex(ph)) ELSE fg
        f2 == IF InSum(ph) THEN SumTime(f1) ELSE f1
        f3 == IF InBasis(ph) THEN BasisTime(f2) ELSE f2
        f4 == IF InScale(ph) THEN ScaleTime(f3, ScaleFactor(ph)) ELSE f3
        f5 == IF InFit(ph) THEN FitTime(f4) ELSE f4
    IN  f5

\* txt of PHASE 1 in the frequency-domain script
RealTxt(n) ==
    IF n = "B" THEN Txt("Molecule B\nC=10\n(S7 + D3)", "B", 10)
    ELSE Txt("Molecule {name}\nC={conc}", n, Mol(n).conc)

\* PHASE 1 of the frequency-domain script
RevealFreq(fg, kk) ==
    [fg EXCEPT
       !.black_lines = [n \in Names |->
          IF Revealed(Idx(n) - 1, kk)
          THEN Line(freq, real_fids[n]) ELSE @[n]],
       !.labels_real = [n \in Names |->
          IF Revealed(Idx(n) - 1, kk)
          THEN Label(PeakPos(real_fids[n]), RealTxt(n))
          ELSE @[n]]]

\* PHASE 2
SumFreq(fg) ==
    [fg EXCEPT
       !.sum_black = Line(freq, real_sum),
       !.black_lines = [n \in Names |-> NoLine],
       !.labels_real = [n \in Names |-> [@[n] EXCEPT !.text = NoTxt]]]

\* PHASE 3
BasisFreq(fg) ==
    [fg EXCEPT
       !.red_lines = [n \in Names |-> Line(freq, basis_fids[n])],
       !.labels_basis = [n \in Names |->
          Label(PeakPos(basis_fids[n]), Txt("1 AU", "", 0))]]

\* PHASE 4
ScaleFreq(fg, sc) ==
    [fg EXCEPT
       !.red_lines = [n \in Names |->
          Line(freq, RArrScale(RArrScale(basis_fids[n],
                                         Rat(Mol(n).conc, 1)), sc))],
       !.labels_basis = [n \in Names |->
          Label(PeakPos(RArrScale(RArrScale(basis_fids[n],
                                            Rat(Mol(n).conc, 1)), sc)),
                Txt("{conc:.1f} AU", "", Mol(n).conc))]]

\* PHASE 5
FitFreq(fg) == [fg EXCEPT !.sum_red = Line(freq, FittedFreq)]

\* update(frame) of Basis_set_fiiting_Spectral_domain.py
UpdateFreq(fg, f) ==
    LET ph == Progress(f)
        f1 == IF InReveal(ph) THEN RevealFreq(fg, RevealIndex(ph)) ELSE fg
        f2 == IF InSum(ph) THEN SumFreq(f1) ELSE f1
        f3 == IF InBasis(ph) THEN BasisFreq(f2) ELSE f2
        f4 == IF InScale(ph) THEN ScaleFreq(f3, ScaleFactor(ph)) ELSE f3
        f5 == IF InFit(ph) THEN FitFreq(f4) ELSE f4
    IN  f5

\* the if-blocks update(f) enters
Blocks(f) ==
    LET ph == Progress(f)
    IN  (IF InReveal(ph) THEN {"REVEAL_COMPONENTS"} ELSE {})
        \cup (IF InSum(ph) THEN {"SHOW_SUM"} ELSE {})
        \cup (IF InBasis(ph) THEN {"SHOW_BASIS"} ELSE {})
        \cup (IF InScale(ph) THEN {"SCALE_BASIS"} ELSE {})
        \cup (IF InFit(ph) THEN {"SHOW_FIT"} ELSE {})

\* update(f) of the running script acting on the artists fg
UpdateOn(fg, f) ==
    IF script = "time" THEN UpdateTime(fg, f) ELSE UpdateFreq(fg, f)

\* variant: PHASE 4 scales the stored basis arrays in place
Update_InPlace(f) ==
    /\ fig' = UpdateOn(fig, f)
    /\ frame' = f
    /\ phase' = Progress(f)
    /\ k' = IF InReveal(Progress(f)) THEN RevealIndex(Progress(f)) ELSE 0 - 1
    /\ s' = IF InScale(Progress(f)) THEN ScaleFactor(Progress(f)) ELSE None
    /\ ran' = Blocks(f)
    /\ basis_fids' =
          IF InScale(Progress(f))
          THEN [n \in Names |->
                  IF script = "time"
                  THEN CArrScale(basis_fids[n], ScaleFactor(Progress(f)))
                  ELSE RArrScale(basis_fids[n], ScaleFactor(Progress(f)))]
          ELSE basis_fids
    /\ UNCHANGED <<config, t, freq, real_fids, real_sum, others>>

\* one call update(f) by the animation
Update(f) ==
    /\ fig' = UpdateOn(fig, f)
    /\ frame' = f
    /\ phase' = Progress(f)
    /\ k' = IF InReveal(Progress(f)) THEN RevealIndex(Progress(f)) ELSE 0 - 1
    /\ s' = IF InScale(Progress(f)) THEN ScaleFactor(Progress(f)) ELSE None
    /\ ran' = Blocks(f)
    /\ UNCHANGED <<config, signals, others>>

\* ------------------------------------------------------------ animation --
\* ani.save(...) first draws the initial frame: update(0)
InitDraw ==
    /\ pc = "ready"
    /\ Update(0)
    /\ pc' = "play"
    /\ nxt' = 0

\* then it draws frames 0, 1, ..., frames-1 in order
DrawFrame ==
    /\ pc = "play"
    /\ nxt < frames
    /\ Update(nxt)
    /\ nxt' = nxt + 1
    /\ pc' = pc

\* print("Saved: ...")
Saved ==
    /\ pc = "play"
    /\ nxt = frames
    /\ pc' = "saved"
    /\ UNCHANGED <<config, signals, fig, nxt, locals, others>>

Next == SetupTime \/ SetupFreq \/ InitDraw \/ DrawFrame \/ Saved

Spec == Init /\ [][Next]_vars

\* =============================================================== claims ==
Started == pc \in {"play", "saved"}

Built == pc \in {"ready", "play", "saved"}

\* the phase of frame f by integer arithmetic on f and frames
PhaseOfFrame(f) ==
    IF 10 * f < 3 * frames THEN "REVEAL_COMPONENTS"
    ELSE IF 100 * f < 45 * frames THEN "SHOW_SUM"
    ELSE IF 100 * f < 65 * frames THEN "SHOW_BASIS"
    ELSE IF 10 * f < 9 * frames THEN "SCALE_BASIS"
    ELSE "SHOW_FIT"

\* C1: every update(f) enters exactly one if-block, the one whose half-open
\* interval [lo, hi) holds p = f/frames; a boundary value belongs to the
\* phase it is the lower bound of (frames = 100: 29 -> REVEAL_COMPONENTS,
\* 30 -> SHOW_SUM, 89 -> SCALE_BASIS, 90 -> SHOW_FIT).
C1_PhaseByProgress ==
    Started =>
      /\ ran = {PhaseOfFrame(frame)}
      /\ frames = 100 =>
           /\ frame = 29 => ran = {"REVEAL_COMPONENTS"}
           /\ frame = 30 => ran = {"SHOW_SUM"}
           /\ frame = 89 => ran = {"SCALE_BASIS"}
           /\ frame = 90 => ran = {"SHOW_FIT"}

C1_Witness == Started /\ frames = 100 /\ frame = 30 /\ ran = {"SHOW_SUM"}

\* the array the fitted trace is computed from in PHASE 5
Fitted == IF script = "time" THEN FittedTime ELSE FittedFreq

\* C2: the fitted signal shown in SHOW_FIT equals the composite signal shown
\* in SHOW_SUM at every sample index, and the sum of basis * concentration
\* equals the stored composite real_sum.
C2_FitEqualsComposite ==
    (Started /\ "SHOW_FIT" \in ran) =>
      /\ Len(fig.sum_red.y) = N
      /\ Len(fig.sum_black.y) = N
      /\ \A i \in 1..N : fig.sum_red.y[i] = fig.sum_black.y[i]
      /\ \A i \in 1..N : Fitted[i] = real_sum[i]

C2_Witness ==
    /\ Started
    /\ "SHOW_FIT" \in ran
    /\ Len(molecules) >= 2
    /\ \A i \in 1..N : IsFinite(fig.sum_red.y[i]) /\ fig.sum_red.y[i] # R0
    /\ fig.sum_red.y = fig.sum_black.y

\* peak magnitude of a species' decayed signal (time) or spectrum (freq)
RawPeak(n) ==
    IF script = "time" THEN ArrMax(ArrAbs(Mol(n).fid))
    ELSE ArrMax(Spectrum(Mol(n).peaks))

\* sample magnitudes of a species' basis
BasisAbs(n) ==
    IF script = "time" THEN ArrAbs(basis_fids[n])
    ELSE [i \in 1..N |-> RAbs(basis_fids[n][i])]

\* C3: a species whose signal is not all-zero gets a basis whose largest
\* magnitude is exactly 1, no sample exceeding 1.
C3_UnitPeak ==
    Built =>
      \A n \in Names :
        RawPeak(n) # R0 =>
          /\ ArrMax(BasisAbs(n)) = R1
          /\ \A i \in 1..N : RLeq(BasisAbs(n)[i], R1)

C3_Witness ==
    /\ Built
    /\ \E n \in Names :
         /\ RawPeak(n) # R0
         /\ RawPeak(n) # R1
         /\ BasisAbs(n)[2] = R1
         /\ RLess(BasisAbs(n)[1], R1)

\* the species whose black trace is drawn
VisibleSpecies == {n \in Names : fig.black_lines[n] # NoLine}

\* floor((p/0.30) * species_count) for frame f
RevealFloor(f) == (10 * f * Len(molecules)) \div (3 * frames)

\* C4: in REVEAL_COMPONENTS the species drawn are those up through index
\* floor((p/0.30)*species_count); from one frame of the phase to the next the
\* number drawn never decreases and a drawn species stays drawn.
C4_RevealMonotone ==
    [][ /\ ("REVEAL_COMPONENTS" \in ran') =>
             /\ VisibleSpecies' = {n \in Names' : Idx(n)' - 1 <= RevealFloor(frame)'}
             /\ \A n \in VisibleSpecies' :
                   fig'.labels_real[n].text # NoTxt
        /\ ("REVEAL_COMPONENTS" \in ran /\ "REVEAL_COMPONENTS" \in ran') =>
             /\ VisibleSpecies \subseteq VisibleSpecies'
             /\ Cardinality(VisibleSpecies) <= Cardinality(VisibleSpecies')
      ]_vars

C4_Witness ==
    /\ "REVEAL_COMPONENTS" \in ran
    /\ Len(molecules) = 4
    /\ k = 2
    /\ Cardinality(VisibleSpecies) = 3

PhaseRank(b) ==
    CASE b = "REVEAL_COMPONENTS" -> 1
      [] b = "SHOW_SUM" -> 2
      [] b = "SHOW_BASIS" -> 3
      [] b = "SCALE_BASIS" -> 4
      [] b = "SHOW_FIT" -> 5

\* the x axis the traces are drawn against
Axis == IF script = "time" THEN t ELSE freq

\* the values a trace of array a shows
Shown(a) == IF script = "time" THEN ArrReal(a) ELSE a

\* C5: played in increasing order the phase never moves back; once a frame
\* is in SHOW_FIT every later frame is, the fitted trace is shown, and no
\* artist changes from one SHOW_FIT frame to the next.
C5_FitAbsorbing ==
    [][ /\ \A a \in ran : \A b \in ran' : PhaseRank(a) <= PhaseRank(b)
        /\ ("SHOW_FIT" \in ran) =>
             /\ "SHOW_FIT" \in ran'
             /\ fig.sum_red = Line(Axis, Shown(Fitted))
             /\ fig' = fig
      ]_vars

C5_Witness ==
    /\ pc = "play"
    /\ "SHOW_FIT" \in ran
    /\ frame = frames - 1
    /\ fig.sum_red # NoLine

\* what a viewer of the figure can tell apart: a text with an empty string
\* shows nothing, wherever it is anchored
Visible(fg) ==
    [fg EXCEPT
       !.labels_real = [n \in Names |->
          IF @[n].text = NoTxt THEN Label(<<R0, R0>>, NoTxt) ELSE @[n]],
       !.labels_basis = [n \in Names |->
          IF @[n].text = NoTxt THEN Label(<<R0, R0>>, NoTxt) ELSE @[n]]]

\* the figure before any update call
FreshFigure == NewFigure(fig.xlim, fig.ylim)

\* the last frame g <= f with lo <= g/frames < hi, or -1 if there is none;
\* lo and hi are in hundredths
LastFrameIn(lo, hi, f) ==
    LET first == (lo * frames + 99) \div 100
        below == (hi * frames - 1) \div 100
        last == IF f < below THEN f ELSE below
    IN  IF first <= last THEN last ELSE 0 - 1

ApplyAt(fg, g) == IF g >= 0 THEN UpdateOn(fg, g) ELSE fg

\* the figure as a function of f alone: the fresh figure updated at the last
\* frame up to f of each phase
InOrderFigure(f) ==
    ApplyAt(ApplyAt(ApplyAt(ApplyAt(ApplyAt(FreshFigure,
        LastFrameIn(0, 30, f)),
        LastFrameIn(30, 45, f)),
        LastFrameIn(45, 65, f)),
        LastFrameIn(65, 90, f)),
        LastFrameIn(90, 100 * (f + 1), f))

\* C6 as stated: what is visible after update(f) is what update(f) draws on
\* a fresh figure, whatever calls came before.
C6_FrameAloneAnyHistory ==
    Started => Visible(fig) = Visible(UpdateOn(FreshFigure, frame))

\* C6 (amended): for the calls the animation makes (the initial draw of frame
\* 0, then frames 0, 1, ... in increasing order) what is visible after
\* update(f) is a function of f alone, and repeating update(f) changes
\* nothing.
C6_FrameAloneInOrder ==
    Started =>
      /\ fig = InOrderFigure(frame)
      /\ UpdateOn(fig, frame) = fig

C6_Witness ==
    /\ Started
    /\ "SHOW_BASIS" \in ran
    /\ fig.sum_black # NoLine
    /\ UpdateOn(FreshFigure, frame).sum_black = NoLine
    /\ fig = InOrderFigure(frame)

\* C7: after update at a SHOW_SUM frame no per-species trace or label is
\* shown and the composite trace is the only trace with data.
C7_OnlyCompositeInSum ==
    (Started /\ "SHOW_SUM" \in ran) =>
      /\ \A n \in Names :
           /\ fig.black_lines[n] = NoLine
           /\ fig.red_lines[n] = NoLine
           /\ fig.labels_real[n].text = NoTxt
           /\ fig.labels_basis[n].text = NoTxt
      /\ fig.sum_black = Line(Axis, Shown(real_sum))
      /\ fig.sum_black # NoLine
      /\ fig.sum_red = NoLine

C7_Witness ==
    /\ Started
    /\ "SHOW_SUM" \in ran
    /\ Len(molecules) >= 2
    /\ fig.sum_black # NoLine
    /\ \A n \in Names : fig.black_lines[n] = NoLine

\* the basis samples of a species as they are drawn
BasisShown(n) == Shown(basis_fids[n])

\* the state part of C8 at a SCALE_BASIS frame
ScaleState ==
    /\ s = Rat(20 * frame - 13 * frames, 5 * frames)
    /\ RLeq(R0, s)
    /\ RLess(s, R1)
    /\ \A n \in Names :
         /\ fig.red_lines[n].x = Axis
         /\ Len(fig.red_lines[n].y) = N
         /\ \A i \in 1..N :
              fig.red_lines[n].y[i] =
                 RMul(RMul(BasisShown(n)[i], Rat(Mol(n).conc, 1)), s)

\* C8: at a SCALE_BASIS frame each species' red trace is
\* basis * concentration * s with s = (p - 0.65)/0.25 and 0 <= s < 1, and s
\* grows by the same amount, 4/frames, from one frame to the next.
C8_ScaleRamp ==
    [][ /\ ("SCALE_BASIS" \in ran) => ScaleState
        /\ ("SCALE_BASIS" \in ran /\ "SCALE_BASIS" \in ran') =>
              /\ frame' = frame + 1
              /\ RSub(s', s) = Rat(4, frames)
      ]_vars

C8_Witness ==
    /\ Started
    /\ "SCALE_BASIS" \in ran
    /\ frames = 100
    /\ frame = 89
    /\ s = Rat(24, 25)
    /\ \E n \in Names : \E i \in 1..N :
         IsFinite(fig.red_lines[n].y[i]) /\ fig.red_lines[n].y[i] # R0

\* a real or complex sample that is NaN or infinite
BadSample(x) ==
    IF script = "time" THEN ~IsFinite(x.re) \/ ~IsFinite(x.im)
    ELSE ~IsFinite(x)

\* C9: a species whose signal peaks at 0 is handled: the script stops at
\* setup, or the basis of the species is identically zero; no NaN or Inf is
\* in the basis, real, composite or fitted signals.
C9_DegenerateHandled ==
    Built =>
      /\ \A n \in Names :
           RawPeak(n) = R0 =>
              \A i \in 1..N :
                 basis_fids[n][i] = (IF script = "time" THEN C0 ELSE R0)
      /\ \A n \in Names : \A i \in 1..N :
           ~BadSample(basis_fids[n][i]) /\ ~BadSample(real_fids[n][i])
      /\ \A i \in 1..N : ~BadSample(real_sum[i]) /\ ~BadSample(Fitted[i])

\* C10: after setup no step changes the axes, the basis and real signals or
\* the composite (nor the configuration); update writes only its locals and
\* the artists.
C10_SignalsReadOnly ==
    [][ Built => UNCHANGED <<signals, config>> ]_vars

C10_Witness ==
    /\ pc = "play"
    /\ "SCALE_BASIS" \in ran
    /\ s # R0
    /\ Len(molecules) >= 2
    /\ \A n \in Names : \A i \in 1..N : ~BadSample(basis_fids[n][i])
    /\ \E n \in Names : \E i \in 1..N :
         fig.red_lines[n].y[i] # BasisShown(n)[i]

\* ==================================================================== --
\* Progressive-acquisition animations:
\*   MRS_Animation_FID-to-Spectrum.py   (acq.script = "spectrum")
\*   MRS_Concentration_Time_Domian.py   (acq.script = "concentration")
\* The state of the running script is the record acq; N and frames are
\* fields of it (the scripts have N = 2048 and frames = 300 and 250).  A
\* magnitude np.abs(z) is kept as SqrtOf(|z|^2), the non-negative real whose
\* square is the rational |z|^2.

\* sample counts on which the FFT is exact
SampleCounts == {2, 4}

\* frames of an acquisition run
AcqFrameCounts == {3, 10, 250, 300}

\* t = np.arange(N)/BW
AcqTimeAxis(n) == [i \in 1..n |-> Rat(i - 1, BW)]

\* freq_axis = np.linspace(-BW/2, BW/2, N)
AcqFreqAxis(n) ==
    [i \in 1..n |-> Rat((0 - BW) * (n - 1) + 2 * BW * (i - 1), 2 * (n - 1))]

\* decay = np.exp(-t/T2)
AcqDecay(n) == [i \in 1..n |-> Rat(1, Pow2(i - 1))]

ArrTimes(sig, env) == [i \in 1..Len(sig) |-> CScale(sig[i], env[i])]

\* multiplet(freqs, amps): signal += a*np.exp(1j*2*np.pi*f*t) over the zip
RECURSIVE MultipletZip(_, _, _, _)
MultipletZip(freqs, amps, j, n) ==
    IF j = 0 THEN [i \in 1..n |-> C0]
    ELSE CArrAdd(MultipletZip(freqs, amps, j - 1, n),
                 [i \in 1..n |->
                    CScale(CisTurn(RMul(Rat(freqs[j], 1), AcqTimeAxis(n)[i])),
                           Rat(amps[j], 1))])

multipletFA(freqs, amps, n) ==
    MultipletZip(freqs, amps,
                 IF Len(freqs) < Len(amps) THEN Len(freqs) ELSE Len(amps), n)

\* molecule_type(kind); centers on the exact grid, J/2 = 1
molecule_type(kind, n) ==
    CASE kind = 1 ->
           [fid |-> ArrTimes(CArrAdd(multipletFA(<<1>>, <<1>>, n),
                                     multipletFA(<<2 - J \div 2, 2 + J \div 2>>,
                                                 <<1, 1>>, n)),
                             AcqDecay(n)),
            title |-> "singlet + doublet"]
      [] kind = 2 ->
           [fid |-> ArrTimes(CArrAdd(CArrAdd(multipletFA(<<1>>, <<1>>, n),
                                             multipletFA(<<0 - J \div 2, 0 + J \div 2>>,
                                                         <<1, 1>>, n)),
                                     multipletFA(<<3 - J, 3, 3 + J>>,
                                                 <<1, 2, 1>>, n)),
                             AcqDecay(n)),
            title |-> "singlet + doublet + triplet"]
      [] kind = 3 ->
           [fid |-> ArrTimes(multipletFA(<<1 - 3 * (J \div 2), 1 - J \div 2,
                                           1 + J \div 2, 1 + 3 * (J \div 2)>>,
                                         <<1, 3, 3, 1>>, n),
                             AcqDecay(n)),
            title |-> "complex quartet"]

\* build_case(kind)
build_case(kind, n) ==
    LET p1 == IF kind >= 1
              THEN <<[part |-> ArrTimes(multipletFA(<<1>>, <<1>>, n), AcqDecay(n)),
                      label |-> "Singlet"]>>
              ELSE <<>>
        p2 == IF kind >= 2
              THEN <<[part |-> ArrTimes(multipletFA(<<2 - J \div 2, 2 + J \div 2>>,
                                                    <<1, 1>>, n), AcqDecay(n)),
                      label |-> "Doublet"]>>
              ELSE <<>>
        p3 == IF kind >= 3
              THEN <<[part |-> ArrTimes(multipletFA(
                                           <<2 - 3 * (J \div 2), 2 - J \div 2,
                                             2 + J \div 2, 2 + 3 * (J \div 2)>>,
                                           <<1, 3, 3, 1>>, n), AcqDecay(n)),
                      label |-> "Multiplet"]>>
              ELSE <<>>
        all == p1 \o p2 \o p3
    IN  [parts |-> [i \in 1..Len(all) |-> all[i].part],
         labels |-> [i \in 1..Len(all) |-> all[i].label]]

\* sum(parts)
RECURSIVE SumParts(_, _, _)
SumParts(parts, i, n) ==
    IF i = 0 THEN [j \in 1..n |-> C0]
    ELSE CArrAdd(SumParts(parts, i - 1, n), parts[i])

SqrtOf(q) == [sqrt_of |-> q]

\* np.abs of an array
MagArr(x) ==
    [i \in 1..Len(x) |->
        SqrtOf(RAdd(RMul(x[i].re, x[i].re), RMul(x[i].im, x[i].im)))]

\* np.fft.fft of an array of any length dividing 4
FFTn(x) ==
    LET n == Len(x)
        RECURSIVE Acc(_, _)
        Acc(kk, m) == IF m = 0 THEN C0
                      ELSE CAdd(Acc(kk, m - 1),
                                CMul(x[m],
                                     CisTurn(Rat(0 - (kk - 1) * (m - 1), n))))
    IN  [kk \in 1..n |-> Acc(kk, n)]

\* np.fft.fftshift
FFTShiftn(x) ==
    LET n == Len(x)
    IN  [i \in 1..n |-> x[((i - 1 + n - (n \div 2)) % n) + 1]]

\* spec.max() of an array of magnitudes
MagMax(a) == SqrtOf(ArrMax([i \in 1..Len(a) |-> a[i].sqrt_of]))

\* variant: the frame is counted from 1
AcqIndex_FromOne(f, fr, n) == Floor(RMul(Rat(f + 1, fr), Rat(n, 1)))

\* idx = int((frame/frames)*N)
AcqIndex(f, fr, n) == Floor(RMul(Rat(f, fr), Rat(n, 1)))

\* x[:idx]
Prefix(x, idx) == [i \in 1..(IF idx < Len(x) THEN idx ELSE Len(x)) |-> x[i]]

\* padded = np.zeros(N, dtype=complex); padded[:idx] = current
Padded(current, n) ==
    [i \in 1..n |-> IF i <= Len(current) THEN current[i] ELSE C0]

\* round-half-even of a finite non-negative x to an integer
RoundInt(x) ==
    LET fl == x[1] \div x[2]
        r2 == 2 * (x[1] - fl * x[2])
    IN  IF r2 > x[2] THEN fl + 1
        ELSE IF r2 < x[2] THEN fl
        ELSE IF fl % 2 = 0 THEN fl ELSE fl + 1

\* f"{x:.<d>f}": the digits of x rounded to d decimals
Fmt(x, d) ==
    [digits |-> RoundInt(RMul(x, Rat(IF d = 1 THEN 10 ELSE 100, 1))),
     decimals |-> d]

\* the basis-fitting scripts are not running
FittingIdle ==
    /\ script = ""
    /\ frames = 0
    /\ molecules = None
    /\ t = None
    /\ freq = None
    /\ basis_fids = None
    /\ real_fids = None
    /\ real_sum = None
    /\ fig = None
    /\ pc = "off"
    /\ nxt = 0
    /\ frame = 0 - 1
    /\ phase = None
    /\ k = 0 - 1
    /\ s = None
    /\ ran = {}

InitAcq ==
    /\ FittingIdle
    /\ rf = None
    /\ \E sc \in {"spectrum", "concentration"} :
       \E n \in SampleCounts :
       \E fr \in AcqFrameCounts :
          acq = [script |-> sc, N |-> n, frames |-> fr,
                 t |-> AcqTimeAxis(n),
                 freq_axis |-> IF sc = "spectrum" THEN AcqFreqAxis(n) ELSE None,
                 kind |-> 1, pc |-> "create",
                 fid |-> None, parts |-> None, labels |-> None,
                 fig |-> None, nxt |-> 0,
                 frame |-> 0 - 1, idx |-> 0 - 1, padded |-> None]

\* create_animation(kind) up to the creation of the FuncAnimation
CreateAnimation ==
    /\ acq.pc = "create"
    /\ acq.script = "spectrum"
    /\ LET mt == molecule_type(acq.kind, acq.N)
           full_spec == MagArr(FFTShiftn(FFTn(mt.fid)))
       IN  acq' = [acq EXCEPT
                     !.fid = mt.fid,
                     !.fig = [line_fid |-> NoLine,
                              line_spec |-> NoLine,
                              title |-> mt.title,
                              ylim |-> <<SqrtOf(R0),
                                         SqrtOf(RMul(MagMax(full_spec).sqrt_of,
                                                     Rat(121, 100)))>>],
                     !.pc = "ready",
                     !.nxt = 0,
                     !.frame = 0 - 1,
                     !.idx = 0 - 1,
                     !.padded = None]
    /\ UNCHANGED <<fitting, rf>>

\* animate_case(kind) up to the creation of the FuncAnimation
AnimateCase ==
    /\ acq.pc = "create"
    /\ acq.script = "concentration"
    /\ LET bc == build_case(acq.kind, acq.N)
       IN  acq' = [acq EXCEPT
                     !.parts = bc.parts,
                     !.labels = bc.labels,
                     !.fid = SumParts(bc.parts, Len(bc.parts), acq.N),
                     !.fig = [line_total |-> NoLine,
                              part_lines |-> [i \in 1..Len(bc.parts) |-> NoLine],
                              text_obj |-> [total |-> Fmt(R0, 2), fracs |-> <<>>,
                                            empty |-> TRUE]],
                     !.pc = "ready",
                     !.nxt = 0,
                     !.frame = 0 - 1,
                     !.idx = 0 - 1]
    /\ UNCHANGED <<fitting, rf>>

\* update(frame) of create_animation
UpdateSpectrum(a, f) ==
    LET idx == AcqIndex(f, a.frames, a.N)
        current == Prefix(a.fid, idx)
        padded == Padded(current, a.N)
        spec == MagArr(FFTShiftn(FFTn(padded)))
    IN  [a EXCEPT
           !.frame = f,
           !.idx = idx,
           !.padded = padded,
           !.fig = [@ EXCEPT
                      !.line_fid = Line(Prefix(a.t, idx), ArrReal(current)),
                      !.line_spec = Line(a.freq_axis, spec)]]

\* update(frame) of animate_case; a.fid is total_fid
UpdateConcentration(a, f) ==
    LET idx == AcqIndex(f, a.frames, a.N)
        current == Prefix(a.fid, idx)
        total_amp == CAbs(a.fid[1])
        frac(p) == IF RLess(R0, total_amp)
                   THEN RDiv(RMul(Rat(100, 1), CAbs(p[1])), total_amp)
                   ELSE R0
    IN  [a EXCEPT
           !.frame = f,
           !.idx = idx,
           !.fig = [@ EXCEPT
                      !.line_total = Line(Prefix(a.t, idx), ArrReal(current)),
                      !.part_lines = [i \in 1..Len(a.parts) |->
                          Line(Prefix(a.t, idx), ArrReal(Prefix(a.parts[i], idx)))],
                      !.text_obj = [total |-> Fmt(total_amp, 2),
                                    fracs |-> [i \in 1..Len(a.parts) |->
                                        [label |-> a.labels[i],
                                         frac |-> Fmt(frac(a.parts[i]), 1)]],
                                    empty |-> FALSE]]]

AcqUpdate(a, f) ==
    IF a.script = "spectrum" THEN UpdateSpectrum(a, f)
    ELSE UpdateConcentration(a, f)

\* ani.save(...) first draws the initial frame: update(0)
AcqInitDraw ==
    /\ acq.pc = "ready"
    /\ acq' = [AcqUpdate(acq, 0) EXCEPT !.pc = "play", !.nxt = 0]
    /\ UNCHANGED <<fitting, rf>>

\* then frames 0, 1, ..., frames-1 in order
AcqDrawFrame ==
    /\ acq.pc = "play"
    /\ acq.nxt < acq.frames
    /\ acq' = [AcqUpdate(acq, acq.nxt) EXCEPT !.nxt = acq.nxt + 1]
    /\ UNCHANGED <<fitting, rf>>

\* plt.close(); print("Saved:", ...); then the next kind, 1 to 3
AcqSaved ==
    /\ acq.pc = "play"
    /\ acq.nxt = acq.frames
    /\ acq' = IF acq.kind < 3
              THEN [acq EXCEPT !.pc = "create", !.kind = acq.kind + 1]
              ELSE [acq EXCEPT !.pc = "done"]
    /\ UNCHANGED <<fitting, rf>>

NextAcq ==
    CreateAnimation \/ AnimateCase \/ AcqInitDraw \/ AcqDrawFrame \/ AcqSaved

SpecAcq == InitAcq /\ [][NextAcq]_vars

\* the state part of C11 after an update call
AcqLengthState ==
    /\ acq.idx = (acq.frame * acq.N) \div acq.frames
    /\ 0 <= acq.idx
    /\ acq.idx < acq.N
    /\ acq.frame = 0 => acq.idx = 0
    /\ acq.script = "spectrum" =>
         /\ Len(acq.padded) = acq.N
         /\ \A i \in 1..acq.N :
              acq.padded[i] = IF i <= acq.idx THEN acq.fid[i] ELSE C0
         /\ Len(acq.fig.line_fid.y) = acq.idx
    /\ acq.script = "concentration" =>
         /\ Len(acq.fig.line_total.y) = acq.idx
         /\ \A i \in 1..Len(acq.parts) :
              Len(acq.fig.part_lines[i].y) = acq.idx

\* C11: for every frame f the acquired length idx = floor((f/frames)*N) is
\* in [0, N), 0 at frame 0, and never decreases from one frame to the next;
\* the zero-padded signal has length N, equals the FID below idx and is zero
\* from idx on.
C11_AcquiredLength ==
    [][ /\ (acq.pc = "play") => AcqLengthState
        /\ (acq.pc = "play" /\ acq'.pc = "play") =>
              /\ acq'.frame >= acq.frame
              /\ acq'.idx >= acq.idx
      ]_vars

C11_Witness ==
    /\ acq.pc = "play"
    /\ acq.script = "spectrum"
    /\ acq.N = 4
    /\ acq.frame = acq.frames - 1
    /\ acq.idx = 3
    /\ acq.padded[3] = acq.fid[3]
    /\ acq.fid[3] # C0
    /\ acq.fid[4] # C0
    /\ acq.padded[4] = C0

\* ==================================================================== --
\* RF_Pulse_to_FID.py.  The state of the script is the record rf.  A value
\* m*exp(-e/T2) is kept as Dec(m, e) with m rational and e an integer; the
\* precession step 0.3 rad is scaled to a quarter turn and the frequency
\* offsets to np.linspace(-1, 1, n_spins) quarter turns, so that cos and sin
\* are exact; phases are counted in quarter turns.

n_spins == 3

\* fps and seconds (the script has 30 and 20); for these products
\* int(frames*0.2) and int(frames*0.35) are the exact floors
RFTimings == {[fps |-> 5, seconds |-> 2], [fps |-> 5, seconds |-> 4],
              [fps |-> 30, seconds |-> 20]}

Dec(m, e) == [m |-> m, e |-> IF m = R0 THEN 0 ELSE e]

D0 == Dec(R0, 0)

D1 == Dec(R1, 0)

\* the sum of two values of one frame (equal e unless one is zero)
DAdd(x, y) ==
    IF x.m = R0 THEN y
    ELSE IF y.m = R0 THEN x
    ELSE Dec(RAdd(x.m, y.m), x.e)

\* np.sum
RECURSIVE DSum(_, _)
DSum(a, i) == IF i = 0 THEN D0 ELSE DAdd(DSum(a, i - 1), a[i])

DDiv(x, n) == Dec(RDiv(x.m, Rat(n, 1)), x.e)

\* rf_frame = int(frames * 0.2)
RfFrame(fr) == Floor(RMul(Rat(fr, 1), Rat(2, 10)))

\* TE_frame = int(frames * 0.35)
TeFrame(fr) == Floor(RMul(Rat(fr, 1), Rat(35, 100)))

\* freq_offsets = np.linspace(-0.1,0.1,n_spins), in quarter turns
FreqOffsets == [i \in 1..n_spins |-> (2 * (i - 1)) \div (n_spins - 1) - 1]

\* np.linspace(0, seconds, len)
LinSpace(sec, len) ==
    [i \in 1..len |-> IF len = 1 THEN R0 ELSE Rat(sec * (i - 1), len - 1)]

\* np.cos and np.sin of a phase in quarter turns
Cos(ph) == CisTurn(Rat(ph, 4)).re

Sin(ph) == CisTurn(Rat(ph, 4)).im

\* the axes ax3d after cla() and the quiver calls
Bloch(mx, my, mz) ==
    [title |-> "Spin precession (Bloch view)",
     B0 |-> TRUE,
     spins |-> [i \in 1..n_spins |-> <<mx[i], my[i], mz[i]>>],
     net |-> <<DDiv(DSum(mx, n_spins), n_spins),
               DDiv(DSum(my, n_spins), n_spins),
               DDiv(DSum(mz, n_spins), n_spins)>>]

InitRF ==
    /\ FittingIdle
    /\ acq = None
    /\ \E tm \in RFTimings :
       \E ph \in [1..n_spins -> 0..3] :
          rf = [seconds |-> tm.seconds,
                frames |-> tm.fps * tm.seconds,
                rf_frame |-> RfFrame(tm.fps * tm.seconds),
                TE_frame |-> TeFrame(tm.fps * tm.seconds),
                phases |-> ph,
                freq_offsets |-> FreqOffsets,
                Mx |-> [i \in 1..n_spins |-> D0],
                My |-> [i \in 1..n_spins |-> D0],
                Mz |-> [i \in 1..n_spins |-> D1],
                fid |-> <<>>,
                ax3d |-> [title |-> "", B0 |-> FALSE, spins |-> <<>>, net |-> <<>>],
                fid_title |-> "FID",
                fid_line |-> NoLine,
                pc |-> "ready", nxt |-> 0, frame |-> 0 - 1]

\* variant: the sample is taken from the frame of the pulse on
FidSample_FromPulse(f, rff, mx_net) == IF f >= rff THEN mx_net ELSE D0

\* signal = Mx_net if frame > rf_frame, else 0
FidSample(f, rff, mx_net) == IF f > rff THEN mx_net ELSE D0

\* update(frame)
UpdateRF(r, f) ==
    LET after == f > r.rf_frame
        ph == IF after
              THEN [i \in 1..n_spins |-> r.phases[i] + 1 + r.freq_offsets[i]]
              ELSE r.phases
        mx == [i \in 1..n_spins |->
                 IF f < r.rf_frame THEN D0
                 ELSE IF f = r.rf_frame THEN D1
                 ELSE Dec(Cos(ph[i]), f - r.rf_frame)]
        my == [i \in 1..n_spins |->
                 IF f < r.rf_frame THEN D0
                 ELSE IF f = r.rf_frame THEN D0
                 ELSE Dec(Sin(ph[i]), f - r.rf_frame)]
        mz == [i \in 1..n_spins |->
                 IF f < r.rf_frame THEN D1
                 ELSE IF f = r.rf_frame THEN D0
                 ELSE D0]
        newfid == Append(r.fid, FidSample(f, r.rf_frame, DSum(mx, n_spins)))
    IN  [r EXCEPT
           !.frame = f,
           !.phases = ph,
           !.Mx = mx,
           !.My = my,
           !.Mz = mz,
           !.ax3d = Bloch(mx, my, mz),
           !.fid = newfid,
           !.fid_line = IF f > r.TE_frame
                        THEN Line(LinSpace(r.seconds, Len(newfid)), newfid)
                        ELSE NoLine,
           !.fid_title = IF f > r.TE_frame THEN "FID recording"
                         ELSE "Waiting for TE"]

\* ani.save(...) first draws the initial frame: update(0)
RFInitDraw ==
    /\ rf.pc = "ready"
    /\ rf' = [UpdateRF(rf, 0) EXCEPT !.pc = "play", !.nxt = 0]
    /\ UNCHANGED <<fitting, acq>>

\* then frames 0, 1, ..., frames-1 in order
RFDrawFrame ==
    /\ rf.pc = "play"
    /\ rf.nxt < rf.frames
    /\ rf' = [UpdateRF(rf, rf.nxt) EXCEPT !.nxt = rf.nxt + 1]
    /\ UNCHANGED <<fitting, acq>>

\* print("Saved: bloch_3D_FID.gif")
RFSaved ==
    /\ rf.pc = "play"
    /\ rf.nxt = rf.frames
    /\ rf' = [rf EXCEPT !.pc = "saved"]
    /\ UNCHANGED <<fitting, acq>>

NextRF == RFInitDraw \/ RFDrawFrame \/ RFSaved

SpecRF == InitRF /\ [][NextRF]_vars

\* the state part of C12 after update(rf.frame)
PulseState ==
    /\ rf.rf_frame < rf.TE_frame
    /\ rf.frame < rf.rf_frame =>
         \A i \in 1..n_spins :
            rf.Mx[i] = D0 /\ rf.My[i] = D0 /\ rf.Mz[i] = D1
    /\ rf.frame = rf.rf_frame =>
         \A i \in 1..n_spins :
            rf.Mx[i] = D1 /\ rf.My[i] = D0 /\ rf.Mz[i] = D0
    /\ rf.frame > rf.rf_frame =>
         \A i \in 1..n_spins : rf.Mz[i] = D0
    /\ rf.frame <= rf.rf_frame =>
         \A j \in 1..Len(rf.fid) : rf.fid[j] = D0
    /\ rf.frame <= rf.TE_frame => rf.fid_line = NoLine
    /\ rf.frame > rf.TE_frame =>
         /\ rf.fid_line.y = rf.fid
         /\ Len(rf.fid_line.x) = Len(rf.fid)
         /\ rf.fid_line # NoLine

\* C12: with update called frame by frame in order, the spins are (0,0,1)
\* before rf_frame, (1,0,0) at rf_frame and have Mz = 0 after it; every call
\* appends exactly one sample to fid, a zero when the frame is at most
\* rf_frame; the FID trace is empty up to TE_frame and shown after it, and
\* rf_frame < TE_frame.
C12_PulseThenFid ==
    [][ /\ (rf.pc = "play") => PulseState
        /\ (rf'.pc = "play") =>
              /\ Len(rf'.fid) = Len(rf.fid) + 1
              /\ SubSeq(rf'.fid, 1, Len(rf.fid)) = rf.fid
              /\ rf'.frame <= rf.rf_frame => rf'.fid[Len(rf'.fid)] = D0
              /\ rf'.frame >= rf.frame
      ]_vars

C12_Witness ==
    /\ rf.pc = "play"
    /\ rf.frames = 600
    /\ rf.frame > rf.TE_frame
    /\ rf.fid_line # NoLine
    /\ rf.fid[rf.rf_frame + 2] = D0
    /\ \E j \in 1..Len(rf.fid) : rf.fid[j] # D0
    /\ \E i \in 1..n_spins : rf.Mx[i] # D0 /\ rf.Mx[i] # D1

====
